---- MODULE Spec2Model ----
(***************************************************************************)
(* Model of backend/lookup_tables.py: the ZIP -> tract resolution, the     *)
(* per-tract score and component lookups, and retrieve_scores_for_zip,     *)
(* which folds them into one score set and a top-5 component list.         *)
(*                                                                         *)
(* Numbers.  The code computes on Python floats.  Here a number is an      *)
(* exact rational <<n, d>> in lowest terms with d > 0, so 0.4 is <<2, 5>>  *)
(* and -2.1 is <<-21, 10>>.  Sums and quotients are exact; the rounding of *)
(* IEEE arithmetic is not modelled.  <<0, 0>> is a missing cell (pandas    *)
(* NaN, JSON null, Python None).                                           *)
(*                                                                         *)
(* Records.  lookup_tables.py builds HAIScores with the keywords           *)
(* linear_hai, forest_hai, nn_hai, average_hai and Component with name,    *)
(* description, influence, score.  backend/schemas.py as it stands         *)
(* declares HAIScores with other field names and no Component, so the      *)
(* records here carry the fields the call sites of lookup_tables.py pass;  *)
(* `description` (a lookup in a name -> text file that no decision reads)  *)
(* is left out.                                                            *)
(*                                                                         *)
(* Tables.  A table is the list of its rows in file order.  The inputs     *)
(* tried hold at most one row per Geo ID in the score and component        *)
(* tables; every row of the component table has the same columns, as rows  *)
(* of one CSV file do.                                                     *)
(***************************************************************************)
EXTENDS Integers, Sequences, FiniteSets, TLC

VARIABLES
    conversion_table,     \* ZIP_TRACT_062025.csv: rows [ZIP, TRACT]
    hai_lookup,           \* HAI-Lookup-Table.csv: rows [geoid, linear_hai, ...]
    component_lookup,     \* HAI-Partial-Outputs.csv: rows = <<column, value>> lists
    zipcode,              \* argument of retrieve_scores_for_zip
    pc,                   \* "start" | "loop" | "returned" | "raised"
    geoids,               \* local: result of convert_zip_to_geoid
    idx,                  \* position of the for loop in geoids (1-based)
    all_scores,           \* local accumulator
    all_components,       \* local accumulator
    printed,              \* messages written by print(e)
    exc,                  \* exception that left the call, "none" otherwise
    score_obj,            \* first element of the returned tuple
    combined_components,  \* local: merged list before truncation
    top_components        \* second element of the returned tuple

vars == <<conversion_table, hai_lookup, component_lookup, zipcode, pc, geoids,
          idx, all_scores, all_components, printed, exc, score_obj,
          combined_components, top_components>>

inputs == <<conversion_table, hai_lookup, component_lookup, zipcode>>

-----------------------------------------------------------------------------
(* Exact arithmetic standing for the float operations of the code.         *)

Abs(n) == IF n < 0 THEN -n ELSE n

RECURSIVE GCD(_, _)
GCD(a, b) == IF b = 0 THEN a ELSE GCD(b, a % b)

\* the rational n/d in lowest terms, d > 0
Rat(n, d) ==
    LET g == GCD(Abs(n), Abs(d))
        s == IF d < 0 THEN -1 ELSE 1
    IN  <<(s * n) \div g, (s * d) \div g>>

Null == <<0, 0>>

RAdd(x, y) == Rat(x[1] * y[2] + y[1] * x[2], x[2] * y[2])

RDiv(x, k) == Rat(x[1], x[2] * k)

RAbs(x) == <<Abs(x[1]), x[2]>>

RLeq(x, y) == x[1] * y[2] <= y[1] * x[2]

RECURSIVE RSum(_)
RSum(s) == IF s = <<>> THEN Rat(0, 1) ELSE RAdd(s[1], RSum(Tail(s)))

-----------------------------------------------------------------------------
(* Outcome of a call: a value, or the exception it raised.                 *)

Return(v) == [exc |-> "none", val |-> v]

Raise(e) == [exc |-> e, val |-> <<>>]

-----------------------------------------------------------------------------
(* retrieve_hai_scores: first row of the score table with this Geo ID.     *)

retrieve_hai_scores(geoid) ==
    LET hai_row == SelectSeq(hai_lookup, LAMBDA r : r.geoid = geoid)
    IN  IF hai_row = <<>>
        THEN Raise("ValueError")
        ELSE Return([linear_hai  |-> hai_row[1].linear_hai,
                     forest_hai  |-> hai_row[1].forest_hai,
                     nn_hai      |-> hai_row[1].nn_hai,
                     average_hai |-> hai_row[1].average_hai])

(* retrieve_components: the row is indexed before the emptiness test, so   *)
(* an absent Geo ID raises IndexError at `[0]`; the ValueError branch      *)
(* behind it is never reached.  A null cell fails the comparison           *)
(* `comp_value <= 0` with TypeError.                                       *)

AdminColumns == {"Geo ID", "bias", "linear_hai"}

GeoIdOf(row) == row[1][2]

Influence(comp_value) == IF RLeq(comp_value, Rat(0, 1)) THEN "positive" ELSE "negative"

retrieve_components(geoid) ==
    LET component_row  == SelectSeq(component_lookup, LAMBDA r : GeoIdOf(r) = geoid)
        json_records   == component_row
        factor_items   == IF json_records = <<>> THEN <<>>
                          ELSE SelectSeq(json_records[1],
                                         LAMBDA it : it[1] \notin AdminColumns)
    IN  IF json_records = <<>>
        THEN Raise("IndexError")
        ELSE IF component_row = <<>>
        THEN Raise("ValueError")
        ELSE IF \E j \in 1..Len(factor_items) : factor_items[j][2] = Null
        THEN Raise("TypeError")
        ELSE Return([j \in 1..Len(factor_items) |->
                        [name      |-> factor_items[j][1],
                         influence |-> Influence(factor_items[j][2]),
                         score     |-> factor_items[j][2]]])

\* variant: no emptiness test, an unknown ZIP yields the empty list
convert_zip_to_geoid_Unchecked(zip) ==
    LET matching_rows == SelectSeq(conversion_table, LAMBDA r : r.ZIP = zip)
    IN  Return([j \in 1..Len(matching_rows) |-> matching_rows[j].TRACT])

(* convert_zip_to_geoid: TRACT of every row whose ZIP matches, table order *)

convert_zip_to_geoid(zip) ==
    LET matching_rows == SelectSeq(conversion_table, LAMBDA r : r.ZIP = zip)
    IN  IF matching_rows = <<>>
        THEN Raise("ValueError")
        ELSE Return([j \in 1..Len(matching_rows) |-> matching_rows[j].TRACT])

-----------------------------------------------------------------------------
(* The tail of retrieve_scores_for_zip, after the loop.                    *)

NoScores == [linear_hai |-> Null, forest_hai |-> Null, nn_hai |-> Null,
             average_hai |-> Null]

SentinelScores == [linear_hai |-> Rat(0, 1), forest_hai |-> Rat(0, 1),
                   nn_hai |-> Rat(0, 1), average_hai |-> Rat(-1, 1)]

Column(scores, field) == [j \in 1..Len(scores) |-> scores[j][field]]

\* variant: the means divide by the number of resolved identifiers
AverageScores_OverResolved(scores) ==
    LET lin_score    == RDiv(RSum(Column(scores, "linear_hai")), Len(geoids))
        forest_score == RDiv(RSum(Column(scores, "forest_hai")), Len(geoids))
        nn_score     == RDiv(RSum(Column(scores, "nn_hai")), Len(geoids))
    IN  [linear_hai  |-> lin_score,
         forest_hai  |-> forest_score,
         nn_hai      |-> nn_score,
         average_hai |-> RDiv(RAdd(RAdd(lin_score, forest_score), nn_score), 3)]

\* variant: average_hai is the mean of the stored averages
AverageScores_StoredAverage(scores) ==
    [linear_hai  |-> RDiv(RSum(Column(scores, "linear_hai")), Len(scores)),
     forest_hai  |-> RDiv(RSum(Column(scores, "forest_hai")), Len(scores)),
     nn_hai      |-> RDiv(RSum(Column(scores, "nn_hai")), Len(scores)),
     average_hai |-> RDiv(RSum(Column(scores, "average_hai")), Len(scores))]

AverageScores(scores) ==
    LET lin_score    == RDiv(RSum(Column(scores, "linear_hai")), Len(scores))
        forest_score == RDiv(RSum(Column(scores, "forest_hai")), Len(scores))
        nn_score     == RDiv(RSum(Column(scores, "nn_hai")), Len(scores))
    IN  [linear_hai  |-> lin_score,
         forest_hai  |-> forest_score,
         nn_hai      |-> nn_score,
         average_hai |-> RDiv(RAdd(RAdd(lin_score, forest_score), nn_score), 3)]

RECURSIVE Flatten(_)
Flatten(lists) == IF lists = <<>> THEN <<>> ELSE lists[1] \o Flatten(Tail(lists))

\* component_scores: an insertion-ordered dict, as a list of [name, total]
RECURSIVE Accumulate(_, _)
Accumulate(component_scores, comps) ==
    IF comps = <<>> THEN component_scores
    ELSE LET comp == comps[1]
             hit  == {j \in 1..Len(component_scores) :
                         component_scores[j].name = comp.name}
         IN  IF hit # {}
             THEN LET j == CHOOSE j \in hit : TRUE
                  IN  Accumulate(
                          [component_scores EXCEPT
                              ![j].total = RAdd(component_scores[j].total, comp.score)],
                          Tail(comps))
             ELSE Accumulate(
                      Append(component_scores, [name |-> comp.name, total |-> comp.score]),
                      Tail(comps))

FirstComp(comps, comp_name) ==
    comps[CHOOSE j \in 1..Len(comps) :
              /\ comps[j].name = comp_name
              /\ \A h \in 1..(j - 1) : comps[h].name # comp_name]

\* variant: the factor means divide by the number of resolved identifiers
CombineComponents_OverResolved(components, scores) ==
    LET component_scores == Accumulate(<<>>, Flatten(components))
    IN  [j \in 1..Len(component_scores) |->
            [name      |-> component_scores[j].name,
             influence |-> FirstComp(Flatten(components), component_scores[j].name).influence,
             score     |-> RDiv(component_scores[j].total, Len(geoids))]]

\* variant: the label is recomputed from the averaged magnitude
CombineComponents_Relabelled(components, scores) ==
    LET component_scores == Accumulate(<<>>, Flatten(components))
    IN  [j \in 1..Len(component_scores) |->
            [name      |-> component_scores[j].name,
             influence |-> Influence(RDiv(component_scores[j].total, Len(scores))),
             score     |-> RDiv(component_scores[j].total, Len(scores))]]

CombineComponents(components, scores) ==
    LET num_successful_retrievals == Len(scores)
        component_scores == Accumulate(<<>>, Flatten(components))
    IN  [j \in 1..Len(component_scores) |->
            [name      |-> component_scores[j].name,
             influence |-> FirstComp(Flatten(components), component_scores[j].name).influence,
             score     |-> RDiv(component_scores[j].total, num_successful_retrievals)]]

\* list.sort(key=abs(score), reverse=True): stable, descending
\* variant: the key is the signed score
SortsBefore_Signed(a, b) == RLeq(b.score, a.score)

SortsBefore(a, b) == RLeq(RAbs(b.score), RAbs(a.score))

\* variant: an unstable sort, equal keys come out in reverse
InsertSorted_Unstable(sorted, c) ==
    LET n == Cardinality({j \in 1..Len(sorted) : ~SortsBefore(c, sorted[j])})
    IN  SubSeq(sorted, 1, n) \o <<c>> \o SubSeq(sorted, n + 1, Len(sorted))

InsertSorted(sorted, c) ==
    LET n == Cardinality({j \in 1..Len(sorted) : SortsBefore(sorted[j], c)})
    IN  SubSeq(sorted, 1, n) \o <<c>> \o SubSeq(sorted, n + 1, Len(sorted))

RECURSIVE SortByAbsScore(_, _)
SortByAbsScore(sorted, rest) ==
    IF rest = <<>> THEN sorted
    ELSE SortByAbsScore(InsertSorted(sorted, rest[1]), Tail(rest))

TopN == 5

Top(components) ==
    SubSeq(components, 1, IF Len(components) < TopN THEN Len(components) ELSE TopN)

-----------------------------------------------------------------------------
(* Inputs.                                                                 *)

MaxZipRows == 3

\* main() asks for this ZIP code
MainZip == 32246

GeoidOrder == <<12031, 12032, 12033>>
GEOIDS == {GeoidOrder[j] : j \in 1..Len(GeoidOrder)}

NoRow == <<>>

\* rows of the ZIP table: the asked ZIP with any tract, and another ZIP
ZipRows == [ZIP : {MainZip}, TRACT : GEOIDS] \cup {[ZIP |-> 32250, TRACT |-> 12031]}

ConversionTables == UNION {[1..n -> ZipRows] : n \in 0..MaxZipRows}

\* score rows without their key: <<linear, forest, nn, average>>;
\* the second stores an average that is not the mean of the other three
ScoreA == <<Rat(4, 10), Rat(6, 10), Rat(8, 10), Rat(6, 10)>>
ScoreB == <<Rat(8, 10), Rat(6, 10), Rat(1, 10), Rat(9, 10)>>
ScoreC == <<Rat(7, 10), Rat(6, 10), Rat(65, 100), Rat(65, 100)>>

\* component rows without their key, narrow layout: factors A, B, C
NarrowA == << <<"A", Rat(-21, 10)>>, <<"B", Rat(34, 10)>>,  <<"C", Rat(1, 10)>>   >>
NarrowB == << <<"A", Rat(30, 10)>>,  <<"B", Rat(-34, 10)>>, <<"C", Rat(0, 1)>>    >>
NarrowNull == << <<"A", Rat(5, 10)>>, <<"B", Null>>,        <<"C", Rat(2, 10)>>   >>

\* wide layout: factors A .. F
WideA == << <<"A", Rat(1, 10)>>, <<"B", Rat(-2, 10)>>, <<"C", Rat(3, 10)>>,
            <<"D", Rat(-4, 10)>>, <<"E", Rat(5, 10)>>, <<"F", Rat(-6, 10)>> >>
WideB == << <<"A", Rat(5, 10)>>, <<"B", Rat(5, 10)>>, <<"C", Rat(-5, 10)>>,
            <<"D", Rat(5, 10)>>, <<"E", Rat(-5, 10)>>, <<"F", Rat(5, 10)>> >>
WideC == << <<"A", Rat(-9, 10)>>, <<"B", Rat(2, 10)>>, <<"C", Rat(0, 1)>>,
            <<"D", Rat(4, 10)>>, <<"E", Rat(0, 1)>>, <<"F", Rat(6, 10)>> >>

\* what the two tables hold for one tract: <<score row, component row>>
NarrowProfiles ==
    { <<ScoreA, NarrowA>>, <<ScoreB, NarrowB>>, <<NoRow, NarrowA>>,
      <<ScoreC, NoRow>>, <<ScoreA, NarrowNull>> }

WideProfiles ==
    { <<ScoreA, WideA>>, <<ScoreB, WideB>>, <<ScoreC, WideC>>,
      <<NoRow, WideA>>, <<ScoreA, NoRow>> }

ScoreRecord(g, row) ==
    [geoid |-> g, linear_hai |-> row[1], forest_hai |-> row[2],
     nn_hai |-> row[3], average_hai |-> row[4]]

ComponentRecord(g, row) ==
    << <<"Geo ID", g>> >> \o row
       \o << <<"bias", Rat(5, 10)>>, <<"linear_hai", Rat(99, 10)>> >>

\* the tables holding, in key order, the rows f assigns (NoRow: key absent)
ScoreTable(f) ==
    LET present == SelectSeq(GeoidOrder, LAMBDA g : f[g][1] # NoRow)
    IN  [j \in 1..Len(present) |-> ScoreRecord(present[j], f[present[j]][1])]

ComponentTable(f) ==
    LET present == SelectSeq(GeoidOrder, LAMBDA g : f[g][2] # NoRow)
    IN  [j \in 1..Len(present) |-> ComponentRecord(present[j], f[present[j]][2])]

InitLocals ==
    /\ zipcode = MainZip
    /\ pc = "start"
    /\ geoids = <<>>
    /\ idx = 1
    /\ all_scores = <<>>
    /\ all_components = <<>>
    /\ printed = <<>>
    /\ exc = "none"
    /\ score_obj = NoScores
    /\ combined_components = <<>>
    /\ top_components = <<>>

InitTables(profiles) ==
    /\ conversion_table \in ConversionTables
    /\ \E f \in [GEOIDS -> profiles] :
           /\ hai_lookup = ScoreTable(f)
           /\ component_lookup = ComponentTable(f)

Init == InitTables(NarrowProfiles) /\ InitLocals

InitWide == InitTables(WideProfiles) /\ InitLocals

-----------------------------------------------------------------------------
(* retrieve_scores_for_zip, one action per step.                           *)

\* line 56, the resolver found rows
Resolve ==
    /\ pc = "start"
    /\ convert_zip_to_geoid(zipcode).exc = "none"
    /\ geoids' = convert_zip_to_geoid(zipcode).val
    /\ pc' = "loop"
    /\ UNCHANGED <<inputs, idx, all_scores, all_components, printed,
                   exc, score_obj, combined_components, top_components>>

\* line 56, the resolver raised: nothing around the call catches it
ResolveRaises ==
    /\ pc = "start"
    /\ convert_zip_to_geoid(zipcode).exc # "none"
    /\ exc' = convert_zip_to_geoid(zipcode).exc
    /\ pc' = "raised"
    /\ UNCHANGED <<inputs, geoids, idx, all_scores, all_components,
                   printed, score_obj, combined_components, top_components>>

\* the exception, if any, raised inside the try block for geoid
TryBlock(geoid) ==
    IF retrieve_hai_scores(geoid).exc # "none"
    THEN retrieve_hai_scores(geoid).exc
    ELSE retrieve_components(geoid).exc

Caught(e) == e = "ValueError"

\* lines 62-65: both lookups returned
LoopAppend ==
    /\ pc = "loop"
    /\ idx <= Len(geoids)
    /\ TryBlock(geoids[idx]) = "none"
    /\ all_scores' = Append(all_scores, retrieve_hai_scores(geoids[idx]).val)
    /\ all_components' = Append(all_components, retrieve_components(geoids[idx]).val)
    /\ idx' = idx + 1
    /\ UNCHANGED <<inputs, pc, geoids, printed, exc, score_obj,
                   combined_components, top_components>>

\* lines 66-68: except ValueError
LoopSkip ==
    /\ pc = "loop"
    /\ idx <= Len(geoids)
    /\ TryBlock(geoids[idx]) # "none"
    /\ Caught(TryBlock(geoids[idx]))
    /\ printed' = Append(printed, geoids[idx])
    /\ idx' = idx + 1
    /\ UNCHANGED <<inputs, pc, geoids, all_scores, all_components,
                   exc, score_obj, combined_components, top_components>>

\* variant: the scores are appended before the components are fetched
LoopRaises_ScoresKept ==
    /\ pc = "loop"
    /\ idx <= Len(geoids)
    /\ TryBlock(geoids[idx]) # "none"
    /\ ~Caught(TryBlock(geoids[idx]))
    /\ all_scores' = Append(all_scores, retrieve_hai_scores(geoids[idx]).val)
    /\ exc' = TryBlock(geoids[idx])
    /\ pc' = "raised"
    /\ UNCHANGED <<inputs, geoids, idx, all_components,
                   printed, score_obj, combined_components, top_components>>

\* an exception the except clause does not name leaves the function
LoopRaises ==
    /\ pc = "loop"
    /\ idx <= Len(geoids)
    /\ TryBlock(geoids[idx]) # "none"
    /\ ~Caught(TryBlock(geoids[idx]))
    /\ exc' = TryBlock(geoids[idx])
    /\ pc' = "raised"
    /\ UNCHANGED <<inputs, geoids, idx, all_scores, all_components,
                   printed, score_obj, combined_components, top_components>>

\* lines 70-76
ReturnNoData ==
    /\ pc = "loop"
    /\ idx > Len(geoids)
    /\ Len(all_scores) = 0
    /\ score_obj' = SentinelScores
    /\ top_components' = <<>>
    /\ pc' = "returned"
    /\ UNCHANGED <<inputs, geoids, idx, all_scores, all_components,
                   printed, exc, combined_components>>

\* lines 78-130.  The second "no data" return (lines 92-99) repeats the test
\* of line 70 and cannot be taken; `if first_comp:` (line 118) always holds.
ReturnAggregate ==
    /\ pc = "loop"
    /\ idx > Len(geoids)
    /\ Len(all_scores) # 0
    /\ score_obj' = AverageScores(all_scores)
    /\ combined_components' =
           IF Len(all_components) = 0 THEN <<>>
           ELSE SortByAbsScore(<<>>, CombineComponents(all_components, all_scores))
    /\ top_components' = Top(combined_components')
    /\ pc' = "returned"
    /\ UNCHANGED <<inputs, geoids, idx, all_scores, all_components,
                   printed, exc>>

Next ==
    \/ Resolve
    \/ ResolveRaises
    \/ LoopAppend
    \/ LoopSkip
    \/ LoopRaises
    \/ ReturnNoData
    \/ ReturnAggregate

Spec == Init /\ [][Next]_vars

SpecWide == InitWide /\ [][Next]_vars

-----------------------------------------------------------------------------
(* What the tables say, read off the inputs without the operators above.   *)

HasScoreRow(g) == \E j \in 1..Len(hai_lookup) : hai_lookup[j].geoid = g

HasComponentRow(g) == \E j \in 1..Len(component_lookup) : component_lookup[j][1][2] = g

ScoreRowOf(g) ==
    hai_lookup[CHOOSE j \in 1..Len(hai_lookup) :
                   /\ hai_lookup[j].geoid = g
                   /\ \A h \in 1..(j - 1) : hai_lookup[h].geoid # g]

ComponentRowOf(g) ==
    component_lookup[CHOOSE j \in 1..Len(component_lookup) :
                         /\ component_lookup[j][1][2] = g
                         /\ \A h \in 1..(j - 1) : component_lookup[h][1][2] # g]

\* positions of the factor columns in a row of the component table
FactorColumns(row) == {c \in 1..Len(row) : row[c][1] \notin {"Geo ID", "bias", "linear_hai"}}

HasNullFactor(g) ==
    LET row == ComponentRowOf(g)
    IN  \E c \in FactorColumns(row) : row[c][2] = <<0, 0>>

\* the identifier has a row in both tables and every factor cell is a number
Succeeds(g) == HasScoreRow(g) /\ HasComponentRow(g) /\ ~HasNullFactor(g)

\* the identifier lacks a row in the score table or in the factor table
LacksRow(g) == ~HasScoreRow(g) \/ ~HasComponentRow(g)

\* the resolved identifiers that succeed, in resolver order, one per occurrence
Successful == SelectSeq(geoids, Succeeds)

K == Len(Successful)

FirstSuccessful == Successful[1]

Finished == pc \in {"returned", "raised"}

\* x = total / k for rationals <<n, d>>, by cross-multiplication
IsQuotient(x, total, k) == x[2] > 0 /\ x[1] * total[2] * k = total[1] * x[2]

\* sum of vals[j .. Len(vals)], as an unreduced fraction
RECURSIVE Total(_, _)
Total(vals, j) ==
    IF j > Len(vals) THEN <<0, 1>>
    ELSE LET rest == Total(vals, j + 1)
             v    == vals[j]
         IN  <<v[1] * rest[2] + rest[1] * v[2], v[2] * rest[2]>>

\* a score field of the successful identifiers
ScoreField(field) ==
    LET ok == Successful IN [j \in 1..Len(ok) |-> ScoreRowOf(ok[j])[field]]

\* names of the factors of the successful identifiers
FactorNames ==
    LET ok == Successful
    IN  UNION {LET row == ComponentRowOf(ok[j])
               IN  {row[c][1] : c \in FactorColumns(row)} : j \in 1..Len(ok)}

\* raw value of factor `name` for identifier g (0 where the row has no such column)
RawValue(g, name) ==
    LET row == ComponentRowOf(g)
        at  == {c \in FactorColumns(row) : row[c][1] = name}
    IN  IF at = {} THEN <<0, 1>> ELSE row[CHOOSE c \in at : TRUE][2]

\* the raw values of a factor in the successful identifiers
FactorField(name) ==
    LET ok == Successful IN [j \in 1..Len(ok) |-> RawValue(ok[j], name)]

\* position at which `name` is first observed: its column in the first successful row
Observed(name) ==
    LET row == ComponentRowOf(FirstSuccessful)
    IN  CHOOSE c \in FactorColumns(row) : row[c][1] = name

AbsLeq(x, y) == Abs(x[1]) * y[2] <= Abs(y[1]) * x[2]

-----------------------------------------------------------------------------
(* C1: in retrieve_scores_for_zip, an identifier with no row in the score  *)
(* table or no row in the factor table is absorbed: no error leaves the    *)
(* call at that identifier and the loop goes on.  Stated as: when an       *)
(* exception has left the loop, the identifier it left at has a row in     *)
(* both tables.                                                            *)
C1_MissingRowAbsorbed ==
    (pc = "raised" /\ geoids # <<>>) => ~LacksRow(geoids[idx])

(* C2: when the ZIP resolves to at least one identifier and every          *)
(* identifier lacks a row in the score table or in the factor table, the   *)
(* call returns 0.0 / 0.0 / 0.0 / -1 and an empty factor list.             *)
C2_AllFailReturnsSentinel ==
    (/\ Finished
     /\ \E j \in 1..Len(conversion_table) : conversion_table[j].ZIP = zipcode
     /\ \A j \in 1..Len(conversion_table) :
            conversion_table[j].ZIP = zipcode => LacksRow(conversion_table[j].TRACT))
    => (/\ pc = "returned"
        /\ score_obj = [linear_hai |-> <<0, 1>>, forest_hai |-> <<0, 1>>,
                        nn_hai |-> <<0, 1>>, average_hai |-> <<-1, 1>>]
        /\ top_components = <<>>)

(* C3: a ZIP with no row in the ZIP table makes convert_zip_to_geoid raise *)
(* ValueError, and retrieve_scores_for_zip lets it through: the loop is    *)
(* never entered, nothing is accumulated or printed, nothing is returned.  *)
C3_UnknownZipPropagates ==
    (\A j \in 1..Len(conversion_table) : conversion_table[j].ZIP # zipcode)
    => (/\ pc \in {"start", "raised"}
        /\ pc = "raised" => exc = "ValueError"
        /\ geoids = <<>> /\ idx = 1
        /\ all_scores = <<>> /\ all_components = <<>> /\ printed = <<>>
        /\ score_obj = NoScores /\ top_components = <<>>)

C3_Witness ==
    /\ pc = "raised" /\ exc = "ValueError"
    /\ conversion_table # <<>>
    /\ \A j \in 1..Len(conversion_table) : conversion_table[j].ZIP # zipcode
    /\ \E j \in 1..Len(conversion_table) : Succeeds(conversion_table[j].TRACT)

(* C4: with k >= 1 successful identifiers, linear, forest and              *)
(* neuralNetwork are each the sum over the k successful score rows divided *)
(* by k, and average is the sum of those three means divided by 3.         *)
C4_MeansOverSuccessful ==
    (pc = "returned" /\ K >= 1)
    => (/\ \A f \in {"linear_hai", "forest_hai", "nn_hai"} :
               IsQuotient(score_obj[f], Total(ScoreField(f), 1), K)
        /\ \E sum \in {RAdd(RAdd(score_obj.linear_hai, score_obj.forest_hai),
                            score_obj.nn_hai)} :
               IsQuotient(score_obj.average_hai, sum, 3))

\* three resolved, one of them failed, the other two with linear 0.4 and 0.8
C4_Witness ==
    /\ pc = "returned"
    /\ Len(geoids) = 3 /\ K = 2
    /\ {ScoreRowOf(Successful[j]).linear_hai : j \in 1..K} = {<<2, 5>>, <<4, 5>>}
    /\ score_obj.linear_hai = <<3, 5>>

(* C5: every factor name of a successful identifier has one merged entry,  *)
(* whose magnitude is the sum of its raw values over the successful        *)
(* identifiers divided by the number of successful identifiers.            *)
C5_FactorMeanOverSuccessful ==
    (pc = "returned" /\ K >= 1)
    => \A name \in FactorNames :
           /\ Cardinality({j \in 1..Len(combined_components) :
                              combined_components[j].name = name}) = 1
           /\ \A j \in 1..Len(combined_components) :
                  combined_components[j].name = name =>
                      IsQuotient(combined_components[j].score,
                                 Total(FactorField(name), 1), K)

\* three resolved, two successful and different, a factor with a non-zero mean
C5_Witness ==
    /\ pc = "returned"
    /\ Len(geoids) = 3 /\ K = 2
    /\ Successful[1] # Successful[2]
    /\ \E j \in 1..Len(combined_components) :
           /\ combined_components[j].score[1] # 0
           /\ combined_components[j].score #
                  RawValue(FirstSuccessful, combined_components[j].name)

\* the merged magnitude of a factor, total / K, not reduced
Merged(name) ==
    LET t == Total(FactorField(name), 1) IN <<t[1], t[2] * K>>

SameAbs(x, y) == AbsLeq(x, y) /\ AbsLeq(y, x)

TopNames == {top_components[j].name : j \in 1..Len(top_components)}

(* C6: the returned factor list has min(5, number of distinct factor       *)
(* names) entries and is the head of the merged factors in descending      *)
(* order of absolute averaged magnitude: adjacent entries do not increase, *)
(* no omitted factor is larger than an included one, and factors of equal  *)
(* absolute magnitude stand in first-observed order.                       *)
C6_TopFiveByAbsStable ==
    pc = "returned" =>
        LET names  == FactorNames
            merged == [n \in names |-> Merged(n)]
            seen   == [n \in names |-> Observed(n)]
            top    == top_components
        IN  /\ Len(top) = IF Cardinality(names) < 5 THEN Cardinality(names) ELSE 5
            /\ TopNames \subseteq names
            /\ Cardinality(TopNames) = Len(top)
            /\ \A j \in 1..Len(top) :
                   /\ top[j].score[2] > 0
                   /\ SameAbs(top[j].score, merged[top[j].name])
                   /\ top[j].score[1] * merged[top[j].name][1] >= 0
            /\ \A j \in 1..(Len(top) - 1) : AbsLeq(top[j + 1].score, top[j].score)
            /\ \A n \in names \ TopNames : \A j \in 1..Len(top) :
                   /\ AbsLeq(merged[n], top[j].score)
                   /\ SameAbs(merged[n], top[j].score) => seen[top[j].name] < seen[n]
            /\ \A i, j \in 1..Len(top) :
                   (i < j /\ SameAbs(top[i].score, top[j].score))
                       => seen[top[i].name] < seen[top[j].name]

\* six names, five returned, two successful identifiers and one failed; the
\* list has a strictly decreasing pair, a tied pair and a tied omitted factor
C6_Witness ==
    /\ pc = "returned"
    /\ K = 2 /\ Len(geoids) = 3
    /\ Cardinality(FactorNames) = 6 /\ Len(top_components) = 5
    /\ \E j \in 1..4 : ~AbsLeq(top_components[j].score, top_components[j + 1].score)
    /\ \E j \in 1..4 : SameAbs(top_components[j].score, top_components[j + 1].score)
    /\ \E n \in FactorNames \ TopNames : SameAbs(Merged(n), top_components[5].score)

(* C7: a returned factor is labelled "positive" exactly when its raw value *)
(* in the first successful identifier, in resolver order, is <= 0; the     *)
(* label does not follow the sign of the averaged magnitude.               *)
C7_InfluenceFromFirstObserved ==
    (pc = "returned" /\ K >= 1) =>
        \A j \in 1..Len(top_components) :
            /\ top_components[j].influence \in {"positive", "negative"}
            /\ top_components[j].influence = "positive"
                   <=> RawValue(FirstSuccessful, top_components[j].name)[1] <= 0

\* a factor labelled "positive" whose averaged magnitude is above zero
C7_Witness ==
    /\ pc = "returned"
    /\ \E j \in 1..Len(top_components) :
           /\ top_components[j].influence = "positive"
           /\ top_components[j].score[1] > 0

\* one resolved identifier, in the score table, with factor row
\* {A: -2.1, B: 3.4, C: 0.1}
C8_Scenario ==
    /\ pc = "returned"
    /\ Len(geoids) = 1
    /\ Succeeds(geoids[1])
    /\ FactorNames = {"A", "B", "C"}
    /\ RawValue(geoids[1], "A") = <<-21, 10>>
    /\ RawValue(geoids[1], "B") = <<17, 5>>
    /\ RawValue(geoids[1], "C") = <<1, 10>>

(* C8 as stated: in that scenario the factor list is B 3.4 "negative",     *)
(* A -2.1 "positive", C 0.1 "positive".                                    *)
C8_AsStated ==
    C8_Scenario =>
        top_components =
            << [name |-> "B", influence |-> "negative", score |-> <<17, 5>>],
               [name |-> "A", influence |-> "positive", score |-> <<-21, 10>>],
               [name |-> "C", influence |-> "positive", score |-> <<1, 10>>] >>

(* C8 amended: in that scenario the factor list is B 3.4 "negative",       *)
(* A -2.1 "positive", C 0.1 "negative".                                    *)
C8_ScenarioList ==
    C8_Scenario =>
        top_components =
            << [name |-> "B", influence |-> "negative", score |-> <<17, 5>>],
               [name |-> "A", influence |-> "positive", score |-> <<-21, 10>>],
               [name |-> "C", influence |-> "negative", score |-> <<1, 10>>] >>

C8_Witness == C8_Scenario /\ Len(top_components) = 3

\* one resolved identifier with a row in both tables, and a result
SingleComplete ==
    /\ pc = "returned"
    /\ Len(geoids) = 1
    /\ HasScoreRow(geoids[1]) /\ HasComponentRow(geoids[1])

RowMeanIs(x, row) ==
    \E sum \in {RAdd(RAdd(row.linear_hai, row.forest_hai), row.nn_hai)} :
        IsQuotient(x, sum, 3)

(* C9 as stated: for one resolved identifier with rows in both tables the  *)
(* returned score set equals the identifier's score row in all four        *)
(* fields, the stored average included.                                    *)
C9_AsStated ==
    SingleComplete =>
        \A f \in {"linear_hai", "forest_hai", "nn_hai", "average_hai"} :
            score_obj[f] = ScoreRowOf(geoids[1])[f]

(* C9 amended: the returned linear, forest and neuralNetwork equal the     *)
(* row's; the returned average is the mean of those three, so it equals    *)
(* the stored average exactly when the stored average is that mean.        *)
C9_SingleIdentifierScores ==
    SingleComplete =>
        /\ \A f \in {"linear_hai", "forest_hai", "nn_hai"} :
               score_obj[f] = ScoreRowOf(geoids[1])[f]
        /\ RowMeanIs(score_obj.average_hai, ScoreRowOf(geoids[1]))
        /\ score_obj.average_hai = ScoreRowOf(geoids[1]).average_hai
               <=> RowMeanIs(ScoreRowOf(geoids[1]).average_hai, ScoreRowOf(geoids[1]))

C9_Witness ==
    /\ SingleComplete
    /\ score_obj.average_hai # ScoreRowOf(geoids[1]).average_hai

\* the identifiers the loop has passed that succeed, one entry per occurrence
Passed == SelectSeq(SubSeq(geoids, 1, idx - 1), Succeeds)

(* C10: at every point of the loop the two accumulators have the same      *)
(* length and their i-th entries are the score row and the factors of the  *)
(* i-th successful identifier passed so far, one entry per occurrence; an  *)
(* identifier whose factor lookup fails adds to neither.                   *)
C10_AccumulatorsAligned ==
    /\ Len(all_scores) = Len(all_components)
    /\ Len(all_scores) = Len(Passed)
    /\ \A i \in 1..Len(Passed) :
           /\ \A f \in {"linear_hai", "forest_hai", "nn_hai", "average_hai"} :
                  all_scores[i][f] = ScoreRowOf(Passed[i])[f]
           /\ Len(all_components[i]) = Cardinality(FactorColumns(ComponentRowOf(Passed[i])))
           /\ \A c \in 1..Len(all_components[i]) :
                  all_components[i][c].score =
                      RawValue(Passed[i], all_components[i][c].name)

\* a tract resolved twice and appended twice, then one with a score row and
\* no factor row
C10_Witness ==
    /\ pc = "raised" /\ exc = "IndexError"
    /\ idx = 3
    /\ geoids[1] = geoids[2]
    /\ Len(all_scores) = 2 /\ Len(all_components) = 2
    /\ HasScoreRow(geoids[3]) /\ ~HasComponentRow(geoids[3])

====
